---- MODULE Spec2Model ----
(***************************************************************************)
(* Chat backend: message pipeline (controller, service, persistence,       *)
(* broadcast) and the user account workflows.                              *)
(*                                                                         *)
(* JavaScript values are records tagged by their typeof-kind in field t.   *)
(* Strings that are trimmed are sequences of characters.  Each handler is  *)
(* cut at its await points; the persistence backend acts between them.     *)
(***************************************************************************)
EXTENDS Integers, Sequences, FiniteSets, TLC

\* ---------------------------------------------------------------- bounds
NumReq == 2
MaxClock == 1
MaxStrLen == 2
NumCalls == 3

\* ------------------------------------------------------------ JS values
Undefined == [t |-> "undefined"]
Null == [t |-> "null"]
Num(n) == [t |-> "number", n |-> n]
Str(s) == [t |-> "string", v |-> s]
\* a Date object holding a time in clock units
Date(ms) == [t |-> "Date", ms |-> ms]
\* a JSON string in the place of a date
DateStr(s) == [t |-> "string", iso |-> s]
None == [t |-> "none"]

TypeOf(x) == x.t

Chars == {" ", "a"}

RECURSIVE StringsOfLen(_)
StringsOfLen(n) ==
  IF n = 0 THEN {<<>>}
  ELSE {Append(s, c) : s \in StringsOfLen(n - 1), c \in Chars}

StringsUpTo(n) == UNION {StringsOfLen(k) : k \in 0..n}

\* String.prototype.trim
RECURSIVE TrimStart(_)
TrimStart(s) ==
  IF s = <<>> THEN s
  ELSE IF Head(s) = " " THEN TrimStart(Tail(s)) ELSE s

RECURSIVE TrimEnd(_)
TrimEnd(s) ==
  IF s = <<>> THEN s
  ELSE IF s[Len(s)] = " " THEN TrimEnd(SubSeq(s, 1, Len(s) - 1)) ELSE s

\* the string compared as it was sent
NoTrim(s) == s

Trim(s) == TrimEnd(TrimStart(s))

\* ------------------------------------------------------------- requests
\* the values a client can put in msgFrom and msg
FieldValues == {Undefined, Null, Num(7)} \cup {Str(s) : s \in StringsUpTo(MaxStrLen)}

\* the values a client can put in msgDateTime (JSON has no Date)
ClientDates == {Undefined, Null, DateStr("invalid-date"), DateStr("2024-06-04")}

MessageToAdd(from, text, dt) == [t |-> "object", msgFrom |-> from, msg |-> text, msgDateTime |-> dt]

\* every request body of POST /addMessage within the bounds
AllBodies ==
  {[messageToAdd |-> Undefined], [messageToAdd |-> Null], [messageToAdd |-> Num(7)]}
    \cup {[messageToAdd |-> MessageToAdd(f, x, d)] :
            f \in FieldValues, x \in FieldValues, d \in ClientDates}

\* the bodies the concurrent pipeline is run with
PipelineBodies ==
  {[messageToAdd |-> Undefined]}
    \cup {[messageToAdd |-> MessageToAdd(Str(<<"a">>), x, d)] :
            x \in {Str(<<" ">>), Str(<<"a">>)},
            d \in {DateStr("2024-06-04")}}

VARIABLES
  clock,      \* the wall clock read by new Date()
  messages,   \* the Message collection, in insertion order
  nextId,     \* the next _id the backend assigns
  events,     \* what socket.emit has published, in order
  reqs,       \* the POST /addMessage requests, numbered as they arrive
  listed,     \* the last GET /getMessages exchange
  steps,      \* number of acknowledged message writes so far
  users,      \* the User collection
  last,       \* the last user-service exchange
  calls       \* the concurrent user-service calls, numbered as they are made

msgVars == <<messages, nextId, events, reqs, listed, steps>>
userVars == <<users, last, calls>>
vars == <<clock, messages, nextId, events, reqs, listed, steps, users, last, calls>>

IdleReq ==
  [pc |-> "idle", body |-> [messageToAdd |-> Undefined], newMessage |-> None,
   msgFromDb |-> None, status |-> 0, resBody |-> None, handledAt |-> 0,
   saveCalls |-> 0, emits |-> 0, ackedAt |-> 0, stampedStep |-> 0]

NoListing ==
  [status |-> 0, resBody |-> None, store |-> <<>>, served |-> FALSE,
   service |-> None]

NoExchange ==
  [op |-> "none", args |-> None, before |-> {}, called |-> FALSE, ok |-> FALSE,
   result |-> None, status |-> 0, resBody |-> None]

NoCall ==
  [pc |-> "idle", op |-> "none", updates |-> None,
   before |-> {}, ok |-> FALSE, result |-> None, at |-> 0]

Init ==
  /\ clock = 0
  /\ messages = <<>>
  /\ nextId = 1
  /\ events = <<>>
  /\ reqs = [r \in 1..NumReq |-> IdleReq]
  /\ listed = NoListing
  /\ steps = 0
  /\ users = {}
  /\ last = NoExchange
  /\ calls = [c \in 1..NumCalls |-> NoCall]

\* --------------------------------------------------- message controller
\* m.msgFrom for a parsed JSON value m other than null and undefined
Prop(m, k) == IF m.t = "object" THEN m[k] ELSE Undefined

IsNonBlankString(x) == TypeOf(x) = "string" /\ Len(Trim(x.v)) > 0

\* reading m.msgFrom with m === null raises a TypeError
isRequestValidThrows(body) == body.messageToAdd = Null

\* a first check that leaves msg to the second one
isRequestValidFromOnly(body) ==
  LET m == body.messageToAdd IN
    /\ m # Undefined
    /\ IsNonBlankString(Prop(m, "msgFrom"))

isRequestValid(body) ==
  LET m == body.messageToAdd IN
    /\ m # Undefined
    /\ IsNonBlankString(Prop(m, "msgFrom"))
    /\ IsNonBlankString(Prop(m, "msg"))

isMessageValid(message) ==
  /\ IsNonBlankString(message.msgFrom)
  /\ IsNonBlankString(message.msg)

\* { msgDateTime: new Date(), ...req.body.messageToAdd }: the client's value wins
ClientDateKept(m, now) ==
  IF m.msgDateTime = Undefined THEN [m EXCEPT !.msgDateTime = Date(now)] ELSE m

\* { ...req.body.messageToAdd, msgDateTime: new Date() }
NewMessage(m, now) == [m EXCEPT !.msgDateTime = Date(now)]

Text(s) == [t |-> "text", text |-> s]
Err(s) == [error |-> s]
IsError(x) == "error" \in DOMAIN x

\* addMessageRoute from its entry to the await of saveMessage
addMessageRoute(r, body) ==
  /\ reqs[r].pc = "idle"
  /\ r > 1 => reqs[r - 1].pc # "idle"
  /\ IF isRequestValidThrows(body)
       THEN reqs' = [reqs EXCEPT ![r] = [@ EXCEPT !.pc = "rejected", !.body = body]]
     ELSE IF ~isRequestValid(body)
       THEN reqs' = [reqs EXCEPT ![r] =
                       [@ EXCEPT !.pc = "done", !.body = body, !.status = 400,
                                 !.resBody = Text("Invalid message body")]]
     ELSE LET newMessage == NewMessage(body.messageToAdd, clock) IN
       IF ~isMessageValid(newMessage)
         THEN reqs' = [reqs EXCEPT ![r] =
                         [@ EXCEPT !.pc = "done", !.body = body, !.status = 400,
                                   !.newMessage = newMessage,
                                   !.resBody = Text("Invalid message content")]]
         ELSE reqs' = [reqs EXCEPT ![r] =
                         [@ EXCEPT !.pc = "awaitSave", !.body = body,
                                   !.newMessage = newMessage, !.handledAt = clock,
                                   !.stampedStep = steps, !.saveCalls = @ + 1]]
  /\ UNCHANGED <<clock, messages, nextId, events, listed, steps, userVars>>

\* ------------------------------------------------------ message service
\* messageSchema: msgFrom and msg are required strings; the createdAt
\* timestamp is stored under msgDateTime and is set by the backend only
\* when the document does not carry one
SchemaAccepts(message) ==
  /\ TypeOf(message.msgFrom) = "string" /\ message.msgFrom.v # <<>>
  /\ TypeOf(message.msg) = "string" /\ message.msg.v # <<>>

CreatedDoc(message, id, now) ==
  [_id |-> id, msgFrom |-> message.msgFrom, msg |-> message.msg,
   msgDateTime |-> IF TypeOf(message.msgDateTime) = "Date"
                     THEN message.msgDateTime ELSE Date(now),
   v0 |-> 0]

\* the fields saveMessage and getMessages copy out of a document
MessageOf(doc) ==
  [_id |-> doc._id, msg |-> doc.msg, msgFrom |-> doc.msgFrom,
   msgDateTime |-> doc.msgDateTime]

\* saveMessage: MessageModel.create settles, the service maps the outcome
saveMessage(r, ok) ==
  /\ reqs[r].pc = "awaitSave"
  /\ IF ok /\ SchemaAccepts(reqs[r].newMessage)
       THEN LET created == CreatedDoc(reqs[r].newMessage, nextId, clock) IN
            /\ messages' = Append(messages, created)
            /\ nextId' = nextId + 1
            /\ steps' = steps + 1
            /\ reqs' = [reqs EXCEPT ![r] =
                          [@ EXCEPT !.pc = "saved", !.msgFromDb = MessageOf(created),
                                    !.ackedAt = steps + 1]]
       ELSE /\ reqs' = [reqs EXCEPT ![r] =
                          [@ EXCEPT !.pc = "saved",
                                    !.msgFromDb = Err("Failed to save message")]]
            /\ UNCHANGED <<messages, nextId, steps>>
  /\ UNCHANGED <<clock, events, listed, userVars>>

\* the event emitted before the result of saveMessage is looked at
addMessageRouteResumeEmitsFirst(r) ==
  /\ reqs[r].pc = "saved"
  /\ events' = Append(events, [name |-> "messageUpdate",
                               payload |-> [msg |-> reqs[r].msgFromDb]])
  /\ reqs' = [reqs EXCEPT ![r] =
                [@ EXCEPT !.pc = "done",
                          !.status = IF IsError(reqs[r].msgFromDb) THEN 500 ELSE 200,
                          !.resBody = reqs[r].msgFromDb,
                          !.emits = @ + 1]]
  /\ UNCHANGED <<clock, messages, nextId, listed, steps, userVars>>

\* addMessageRoute after the await of saveMessage
addMessageRouteResume(r) ==
  /\ reqs[r].pc = "saved"
  /\ IF IsError(reqs[r].msgFromDb)
       THEN /\ reqs' = [reqs EXCEPT ![r] =
                          [@ EXCEPT !.pc = "done", !.status = 500,
                                    !.resBody = reqs[r].msgFromDb]]
            /\ UNCHANGED events
       ELSE /\ events' = Append(events, [name |-> "messageUpdate",
                                         payload |-> [msg |-> reqs[r].msgFromDb]])
            /\ reqs' = [reqs EXCEPT ![r] =
                          [@ EXCEPT !.pc = "done", !.status = 200,
                                    !.resBody = reqs[r].msgFromDb,
                                    !.emits = @ + 1]]
  /\ UNCHANGED <<clock, messages, nextId, listed, steps, userVars>>

\* sort({ msgDateTime: -1 })
Descending(store, p) ==
  \A i, j \in 1..Len(store) :
    i < j => store[p[i]].msgDateTime.ms >= store[p[j]].msgDateTime.ms

\* find().sort({ msgDateTime: 1 }): the documents in ascending msgDateTime;
\* the query names no second key, so documents with equal msgDateTime come
\* in whatever order the backend yields them
Ascending(store, p) ==
  \A i, j \in 1..Len(store) :
    i < j => store[p[i]].msgDateTime.ms <= store[p[j]].msgDateTime.ms

SortOrders(store) ==
  {p \in Permutations(1..Len(store)) : Ascending(store, p)}

Arr(items) == [t |-> "array", items |-> items]
IsArray(x) == x.t = "array"

\* find() without the sort: the documents as they were inserted
getMessagesUnsorted(store, ok, p) ==
  IF ok
    THEN Arr([i \in 1..Len(store) |-> MessageOf(store[i])])
    ELSE Arr(<<>>)

\* the failure handed on as a tagged error
getMessagesTaggedError(store, ok, p) ==
  IF ok
    THEN Arr([i \in 1..Len(store) |-> MessageOf(store[p[i]])])
    ELSE [t |-> "object", error |-> "Failed to fetch messages"]

\* getMessages: the value the service returns
getMessages(store, ok, p) ==
  IF ok
    THEN Arr([i \in 1..Len(store) |-> MessageOf(store[p[i]])])
    ELSE Arr(<<>>)

\* how the promise of getMessages settles
Resolved(value) == [kind |-> "resolved", value |-> value]
Rejected == [kind |-> "rejected"]

\* getMessagesRoute, the backend's find included
getMessagesRoute(ok, p) ==
  /\ p \in SortOrders(messages)
  /\ LET result == getMessages(messages, ok, p) IN
       listed' = IF IsArray(result)
                   THEN [status |-> 200, resBody |-> result, store |-> messages,
                         served |-> ok, service |-> Resolved(result)]
                   ELSE [status |-> 500, resBody |-> result, store |-> messages,
                         served |-> ok, service |-> Resolved(result)]
  /\ UNCHANGED <<clock, messages, nextId, events, reqs, steps, userVars>>

\* what a getMessages replaced by a test double settles to: an array, a
\* tagged error, or a rejection
MockedOutcomes(store) ==
  {Resolved(Arr(<<>>)),
   Resolved(Arr([i \in 1..Len(store) |-> MessageOf(store[i])])),
   Resolved([t |-> "object", error |-> "Database error"]),
   Rejected}

\* getMessagesRoute run against a replaced getMessages.  The handler has no
\* try/catch: when the awaited promise rejects, the handler's own promise
\* rejects and it sends nothing; the framework then either leaves the request
\* unanswered or hands the error to its default error handler, which answers
\* 500 with a body that is not JSON
getMessagesRouteMocked(settled, forwarded) ==
  /\ settled \in MockedOutcomes(messages)
  /\ listed' =
       IF settled.kind = "rejected"
         THEN IF forwarded
                THEN [status |-> 500, resBody |-> Text("Error: Database error"),
                      store |-> messages, served |-> FALSE, service |-> settled]
                ELSE [status |-> 0, resBody |-> None,
                      store |-> messages, served |-> FALSE, service |-> settled]
       ELSE IF IsArray(settled.value)
         THEN [status |-> 200, resBody |-> settled.value, store |-> messages,
               served |-> FALSE, service |-> settled]
         ELSE [status |-> 500, resBody |-> settled.value, store |-> messages,
               served |-> FALSE, service |-> settled]
  /\ UNCHANGED <<clock, messages, nextId, events, reqs, steps, userVars>>

\* --------------------------------------------------------- user service
Usernames == {"u1", "u2"}
Passwords == {"p1", "p2"}

\* a string in a user request
UStr(s) == [t |-> "string", s |-> s]

UserDoc(username, password, dateJoined) ==
  [username |-> username, password |-> password, dateJoined |-> dateJoined]

\* the document itself handed back, password included
FullUser(doc) == doc

\* the safe projection every service function builds from a document
SafeUser(doc) == [username |-> doc.username, dateJoined |-> doc.dateJoined]

IsSafeUser(x) == DOMAIN x = {"username", "dateJoined"}

\* findOne(filter): the documents a filter matches
MatchUsername(coll, username) == {d \in coll : d.username = username}

MatchCredentials(coll, username, password) ==
  {d \in coll : d.username = username /\ d.password = password}

Outcome(coll, result) == [users |-> coll, result |-> result]

\* the username is the collection's unique key
UsernameTaken(coll, username) == MatchUsername(coll, username) # {}

saveUser(coll, user, ok) ==
  IF ok /\ ~UsernameTaken(coll, user.username)
    THEN Outcome(coll \cup {user}, SafeUser(user))
    ELSE Outcome(coll, Err("Failed to save user"))

getUserByUsername(coll, username, ok) ==
  IF ~ok THEN Outcome(coll, Err("Error fetching user"))
  ELSE IF MatchUsername(coll, username) = {}
    THEN Outcome(coll, Err("User not found"))
    ELSE Outcome(coll, SafeUser(CHOOSE d \in MatchUsername(coll, username) : TRUE))

\* findOne({ username }): the password left out of the filter
LoginByUsernameOnly(coll, c) == MatchUsername(coll, c.username)

\* findOne({ username, password })
LoginMatch(coll, c) == MatchCredentials(coll, c.username, c.password)

loginUser(coll, loginCredentials, ok) ==
  IF ~ok THEN Outcome(coll, Err("Login failed"))
  ELSE IF LoginMatch(coll, loginCredentials) = {}
    THEN Outcome(coll, Err("Invalid username or password"))
    ELSE Outcome(coll, SafeUser(CHOOSE d \in LoginMatch(coll, loginCredentials) : TRUE))

\* findOne in place of findOneAndDelete: the document is read and left stored
deleteUserByUsernameFindOnly(coll, username, ok) ==
  IF ~ok THEN Outcome(coll, Err("Failed to delete user"))
  ELSE IF MatchUsername(coll, username) = {}
    THEN Outcome(coll, Err("User not found"))
    ELSE LET deletedUser == CHOOSE d \in MatchUsername(coll, username) : TRUE IN
         Outcome(coll, SafeUser(deletedUser))

deleteUserByUsername(coll, username, ok) ==
  IF ~ok THEN Outcome(coll, Err("Failed to delete user"))
  ELSE IF MatchUsername(coll, username) = {}
    THEN Outcome(coll, Err("User not found"))
    ELSE LET deletedUser == CHOOSE d \in MatchUsername(coll, username) : TRUE IN
         Outcome(coll \ {deletedUser}, SafeUser(deletedUser))

\* the document after the fields an update names are set
Updated(doc, updates) ==
  [username |-> IF updates.username = Undefined
                  THEN doc.username ELSE updates.username.s,
   password |-> IF updates.password = Undefined
                  THEN doc.password ELSE updates.password.s,
   dateJoined |-> IF updates.dateJoined = Undefined
                    THEN doc.dateJoined ELSE updates.dateJoined]

\* an update with no regard for the schema: every given field is written
UpdatesAsGiven(updates) == updates

\* the User schema: dateJoined is immutable once the document exists, so an
\* update that names it leaves it as it is
SchemaUpdates(updates) == [updates EXCEPT !.dateJoined = Undefined]

\* findOneAndUpdate with { upsert: true }: a missing document is created
findOneAndUpdateUpsert(coll, username, updates, ok, texts) ==
  IF ~ok THEN Outcome(coll, Err(texts.failed))
  ELSE LET old == IF MatchUsername(coll, username) = {}
                    THEN UserDoc(username, "", Date(0))
                    ELSE CHOOSE d \in MatchUsername(coll, username) : TRUE
           new == Updated(old, updates)
       IN Outcome((coll \ {old}) \cup {new}, SafeUser(new))

\* findOneAndUpdate(filter, updates, { new: true }): the matching document is
\* updated in one step and returned as updated; without a match nothing is
\* written and null is returned; a username another document has is refused
findOneAndUpdate(coll, username, updates, ok, texts) ==
  IF ~ok THEN Outcome(coll, Err(texts.failed))
  ELSE IF MatchUsername(coll, username) = {}
    THEN Outcome(coll, Err("User not found"))
    ELSE LET old == CHOOSE d \in MatchUsername(coll, username) : TRUE
             new == Updated(old, SchemaUpdates(updates))
         IN IF UsernameTaken(coll \ {old}, new.username)
              THEN Outcome(coll, Err(texts.failed))
              ELSE Outcome((coll \ {old}) \cup {new}, SafeUser(new))

updateUser(coll, username, updates, ok) ==
  findOneAndUpdate(coll, username, updates, ok, [failed |-> "Failed to update user"])

resetPassword(coll, username, newPassword, ok) ==
  findOneAndUpdate(coll, username,
                   [username |-> Undefined, password |-> UStr(newPassword),
                    dateJoined |-> Undefined], ok,
                   [failed |-> "Failed to reset password"])

\* ------------------------------------------------------ user controller
UserFieldValues(names) == {Undefined, Num(7)} \cup {UStr(n) : n \in names}

UserBodies ==
  {[username |-> u, password |-> p] :
     u \in UserFieldValues(Usernames), p \in UserFieldValues(Passwords)}

\* the fields updateUser may be given: any part of a user, a field that is
\* not given being undefined
Updates ==
  {[username |-> u, password |-> p, dateJoined |-> d] :
     u \in {Undefined} \cup {UStr(n) : n \in Usernames},
     p \in {Undefined} \cup {UStr(n) : n \in Passwords},
     d \in {Undefined} \cup {Date(ms) : ms \in 0..MaxClock}}

isUserBodyValid(body) ==
  TypeOf(body.username) = "string" /\ TypeOf(body.password) = "string"

Exchange(op, args, ok, out, errStatus) ==
  [op |-> op, args |-> args, before |-> users, called |-> TRUE, ok |-> ok,
   result |-> out.result,
   status |-> IF IsError(out.result) THEN errStatus ELSE 200,
   resBody |-> out.result]

Refused(op, args) ==
  [op |-> op, args |-> args, before |-> users, called |-> FALSE, ok |-> FALSE,
   result |-> None, status |-> 400, resBody |-> Text("Invalid user body")]

createUser(body, ok) ==
  /\ IF ~isUserBodyValid(body)
       THEN /\ last' = Refused("createUser", body)
            /\ UNCHANGED users
       ELSE LET out == saveUser(users, UserDoc(body.username.s, body.password.s,
                                                Date(clock)), ok) IN
            /\ users' = out.users
            /\ last' = Exchange("createUser", body, ok, out, 500)
  /\ UNCHANGED <<clock, msgVars, calls>>

userLogin(body, ok) ==
  /\ IF ~isUserBodyValid(body)
       THEN /\ last' = Refused("userLogin", body)
            /\ UNCHANGED users
       ELSE LET out == loginUser(users, [username |-> body.username.s,
                                          password |-> body.password.s], ok) IN
            /\ users' = out.users
            /\ last' = Exchange("userLogin", body, ok, out, 401)
  /\ UNCHANGED <<clock, msgVars, calls>>

getUser(username, ok) ==
  /\ LET out == getUserByUsername(users, username, ok) IN
       /\ users' = out.users
       /\ last' = Exchange("getUser", [username |-> UStr(username)], ok, out, 404)
  /\ UNCHANGED <<clock, msgVars, calls>>

deleteUser(username, ok) ==
  /\ LET out == deleteUserByUsername(users, username, ok) IN
       /\ users' = out.users
       /\ last' = Exchange("deleteUser", [username |-> UStr(username)], ok, out, 404)
  /\ UNCHANGED <<clock, msgVars, calls>>

resetPasswordHandler(body, ok) ==
  /\ IF TypeOf(body.username) # "string" \/ TypeOf(body.password) # "string"
       THEN /\ last' = Refused("resetPasswordHandler", body)
            /\ UNCHANGED users
       ELSE LET out == resetPassword(users, body.username.s, body.password.s, ok) IN
            /\ users' = out.users
            /\ last' = Exchange("resetPasswordHandler", body, ok, out, 404)
  /\ UNCHANGED <<clock, msgVars, calls>>

\* updateUser has no route: a call of the service function
updateUserCall(username, updates, ok) ==
  /\ LET out == updateUser(users, username, updates, ok) IN
       /\ users' = out.users
       /\ last' = [Exchange("updateUser", [username |-> UStr(username),
                                           updates |-> updates], ok, out, 0)
                     EXCEPT !.status = 0, !.resBody = None]
  /\ UNCHANGED <<clock, msgVars, calls>>

\* the username the concurrent calls address
Target == "u1"

\* the mutations callers make at the same time: an update names one field
\* and gives it a value other than the one signup stored
ConcurrentUpdates ==
  {u \in Updates :
     /\ Cardinality({k \in DOMAIN u : u[k] # Undefined}) = 1
     /\ u.username # UStr(Target)
     /\ u.password # UStr("p1")
     /\ u.dateJoined \in {Undefined, Date(MaxClock)}}

ConcurrentCalls ==
  {[op |-> "deleteUserByUsername", updates |-> None]}
    \cup {[op |-> "updateUser", updates |-> u] : u \in ConcurrentUpdates}
    \cup {[op |-> "resetPassword",
           updates |-> [username |-> Undefined, password |-> UStr(p),
                        dateJoined |-> Undefined]] : p \in Passwords \ {"p1"}}

\* the signup that precedes the concurrent calls
SignupBodies ==
  {b \in UserBodies : b.username = UStr(Target) /\ b.password = UStr("p1")}

NoCallYet == \A c \in DOMAIN calls : calls[c].pc = "idle"

\* Target is stored when the first of the calls is made
TargetStored == ~NoCallYet \/ MatchUsername(users, Target) # {}

\* a caller invokes a mutation of the user service on Target: the function
\* runs up to its await of the backend
serviceCalled(c, op, updates) ==
  /\ calls[c].pc = "idle"
  /\ c > 1 => calls[c - 1].pc # "idle"
  /\ calls' = [calls EXCEPT ![c] =
                 [NoCall EXCEPT !.pc = "pending", !.op = op, !.updates = updates]]
  /\ UNCHANGED <<clock, msgVars, users, last>>

\* the backend performs the find and the mutation of a pending call in one
\* step, and the function returns
backendSettled(c, ok) ==
  /\ calls[c].pc = "pending"
  /\ LET out ==
           CASE calls[c].op = "deleteUserByUsername" ->
                  deleteUserByUsername(users, Target, ok)
             [] calls[c].op = "updateUser" ->
                  updateUser(users, Target, calls[c].updates, ok)
             [] calls[c].op = "resetPassword" ->
                  resetPassword(users, Target, calls[c].updates.password.s, ok)
     IN /\ users' = out.users
        /\ calls' = [calls EXCEPT
                       ![c].pc = "settled", ![c].ok = ok, ![c].before = users,
                       ![c].result = out.result,
                       ![c].at = Cardinality({d \in DOMAIN calls :
                                                calls[d].pc = "settled"}) + 1]
  /\ UNCHANGED <<clock, msgVars, last>>

\* time passes
Tick ==
  /\ clock < MaxClock
  /\ clock' = clock + 1
  /\ UNCHANGED <<msgVars, userVars>>

Next ==
  \/ \E r \in DOMAIN reqs, body \in PipelineBodies : addMessageRoute(r, body)
  \/ \E r \in DOMAIN reqs, ok \in BOOLEAN : saveMessage(r, ok)
  \/ \E r \in DOMAIN reqs : addMessageRouteResume(r)
  \/ \E ok \in BOOLEAN, p \in SortOrders(messages) : getMessagesRoute(ok, p)
  \/ Tick

Spec == Init /\ [][Next]_vars

\* one request at a time, over every request body within the bounds
InitValidation ==
  /\ clock = 0
  /\ messages = <<>>
  /\ nextId = 1
  /\ events = <<>>
  /\ reqs = [r \in {1} |-> IdleReq]
  /\ listed = NoListing
  /\ steps = 0
  /\ users = {}
  /\ last = NoExchange
  /\ calls = [c \in 1..NumCalls |-> NoCall]

NextValidation ==
  \/ \E r \in DOMAIN reqs, body \in AllBodies : addMessageRoute(r, body)
  \/ \E r \in DOMAIN reqs, ok \in BOOLEAN : saveMessage(r, ok)
  \/ \E r \in DOMAIN reqs : addMessageRouteResume(r)
  \/ Tick

ValidationSpec == InitValidation /\ [][NextValidation]_vars

\* the account workflows
NextUser ==
  \/ \E body \in UserBodies, ok \in BOOLEAN : createUser(body, ok)
  \/ \E body \in UserBodies, ok \in BOOLEAN : userLogin(body, ok)
  \/ \E username \in Usernames, ok \in BOOLEAN : getUser(username, ok)
  \/ \E username \in Usernames, ok \in BOOLEAN : deleteUser(username, ok)
  \/ \E body \in UserBodies, ok \in BOOLEAN : resetPasswordHandler(body, ok)
  \/ \E username \in Usernames, updates \in Updates, ok \in BOOLEAN :
       updateUserCall(username, updates, ok)
  \/ Tick

UserSpec == Init /\ [][NextUser]_vars

\* the message routes with getMessages replaced by a test double
NextMocked ==
  \/ \E r \in DOMAIN reqs, body \in PipelineBodies : addMessageRoute(r, body)
  \/ \E r \in DOMAIN reqs, ok \in BOOLEAN : saveMessage(r, ok)
  \/ \E r \in DOMAIN reqs : addMessageRouteResume(r)
  \/ \E settled \in MockedOutcomes(messages), forwarded \in BOOLEAN :
       getMessagesRouteMocked(settled, forwarded)
  \/ Tick

MockedSpec == Init /\ [][NextMocked]_vars

\* concurrent mutations of one stored user
NextConcurrent ==
  \/ \E body \in SignupBodies, ok \in BOOLEAN : NoCallYet /\ createUser(body, ok)
  \/ \E c \in DOMAIN calls, call \in ConcurrentCalls :
       TargetStored /\ serviceCalled(c, call.op, call.updates)
  \/ \E c \in DOMAIN calls, ok \in BOOLEAN : backendSettled(c, ok)

ConcurrentSpec == Init /\ [][NextConcurrent]_vars

\* =============================================================== claims
IsTaggedError(x) == DOMAIN x = {"error"}

\* C1, original statement: every value a user-service function or a user
\* endpoint returns is a tagged error or exactly the safe projection
C1_EveryResponseErrorOrProjection ==
  /\ last.called => IsTaggedError(last.result) \/ IsSafeUser(last.result)
  /\ last.status # 0 => IsTaggedError(last.resBody) \/ IsSafeUser(last.resBody)

\* C1, as amended: every user-service result is a tagged error or exactly
\* the safe projection; an endpoint answers a body that fails validation with
\* 400 and the plain text "Invalid user body" without calling the service,
\* and otherwise with the service's result; no result and no response has a
\* password field
C1_SafeProjectionOnly ==
  /\ last.called => IsTaggedError(last.result) \/ IsSafeUser(last.result)
  /\ last.status # 0 =>
       \/ /\ last.status = 400
          /\ ~last.called
          /\ last.resBody = Text("Invalid user body")
       \/ /\ last.called
          /\ last.resBody = last.result
  /\ "password" \notin DOMAIN last.result
  /\ "password" \notin DOMAIN last.resBody

\* a user with a stored password was returned to a caller
C1_Witness ==
  /\ last.op = "userLogin"
  /\ last.status = 200
  /\ \E d \in users : d.password \in Passwords /\ last.resBody = SafeUser(d)

\* C8: loginUser returns the safe projection only for a stored user matching
\* both username and password, and whenever the backend answers and one
\* matches; when none matches, whether the username is unknown or the password
\* wrong, the result is {error: "Invalid username or password"} and /login
\* answers 401 with that body
C8_LoginOutcome ==
  (last.op = "userLogin" /\ last.called) =>
    LET matching == {d \in last.before : /\ d.username = last.args.username.s
                                         /\ d.password = last.args.password.s}
    IN /\ IsSafeUser(last.result) =>
            /\ \E d \in matching : last.result = SafeUser(d)
            /\ last.status = 200
            /\ last.resBody = last.result
       /\ (last.ok /\ matching # {}) => IsSafeUser(last.result)
       /\ (last.ok /\ matching = {}) =>
            /\ last.result = Err("Invalid username or password")
            /\ last.status = 401
            /\ last.resBody = Err("Invalid username or password")

\* a login with a stored username and a wrong password was refused
C8_Witness ==
  /\ last.op = "userLogin"
  /\ last.called
  /\ last.ok
  /\ \E d \in last.before : /\ d.username = last.args.username.s
                            /\ d.password # last.args.password.s
  /\ last.status = 401

\* C9: deleteUserByUsername, updateUser and resetPassword with a username no
\* stored user has leave the user store as it was and, when the backend
\* answers, return {error: "User not found"}
C9_NotFoundNoMutation ==
  (/\ last.op \in {"deleteUser", "updateUser", "resetPasswordHandler"}
   /\ last.called
   /\ \A d \in last.before : d.username # last.args.username.s) =>
     /\ users = last.before
     /\ last.ok => last.result = Err("User not found")

\* an update of an absent username was refused while another user is stored
C9_Witness ==
  /\ last.op = "updateUser"
  /\ last.ok
  /\ last.before # {}
  /\ \A d \in last.before : d.username # last.args.username.s
  /\ last.result = Err("User not found")

\* a field value the controller has to refuse: missing, null, not a string,
\* empty or made of spaces only
BadField(x) ==
  \/ x = Undefined
  \/ x = Null
  \/ TypeOf(x) # "string"
  \/ \A i \in 1..Len(x.v) : x.v[i] = " "

BadBody(body) ==
  \/ body.messageToAdd = Undefined
  \/ body.messageToAdd.t = "number"
  \/ /\ body.messageToAdd.t = "object"
     /\ \/ BadField(body.messageToAdd.msgFrom)
        \/ BadField(body.messageToAdd.msg)

Handled(r) == reqs[r].pc # "idle"

C3_BadClientDateRefused ==
  \A r \in DOMAIN reqs :
    (/\ Handled(r)
     /\ reqs[r].body.messageToAdd.t = "object"
     /\ ~BadField(reqs[r].body.messageToAdd.msgFrom)
     /\ ~BadField(reqs[r].body.messageToAdd.msg)
     /\ reqs[r].body.messageToAdd.msgDateTime \in {Null, DateStr("invalid-date")}) =>
       /\ reqs[r].saveCalls = 0
       /\ reqs[r].pc = "done" => reqs[r].status = 400

StoredWithId(id) == {i \in 1..Len(messages) : messages[i]._id = id}

\* C4: the msgDateTime of the message handed to saveMessage, and of the
\* document stored for it, is the controller's time at handling, whatever
\* msgDateTime the client sent
C4_ControllerStamps ==
  \A r \in DOMAIN reqs :
    reqs[r].saveCalls > 0 =>
      /\ reqs[r].newMessage.msgDateTime = Date(reqs[r].handledAt)
      /\ ~IsError(reqs[r].msgFromDb) /\ reqs[r].msgFromDb # None =>
           \A i \in StoredWithId(reqs[r].msgFromDb._id) :
             messages[i].msgDateTime = Date(reqs[r].handledAt)

\* a message whose client sent a date was stored after the clock moved on
C4_Witness ==
  \E r \in DOMAIN reqs :
    /\ reqs[r].status = 200
    /\ reqs[r].body.messageToAdd.msgDateTime = DateStr("2024-06-04")
    /\ reqs[r].handledAt < clock
    /\ StoredWithId(reqs[r].msgFromDb._id) # {}

MessageUpdate(msg) == [name |-> "messageUpdate", payload |-> [msg |-> msg]]

\* C5: a request answered 200 has emitted exactly one messageUpdate event,
\* carrying the saved message; a request answered 400 or 500 has emitted
\* none; the message of every emitted event is in the store
C5_OneEventAfterSave ==
  /\ \A r \in DOMAIN reqs :
       /\ reqs[r].status = 200 =>
            /\ reqs[r].emits = 1
            /\ Cardinality({k \in 1..Len(events) :
                              events[k] = MessageUpdate(reqs[r].resBody)}) = 1
       /\ reqs[r].status \in {400, 500} => reqs[r].emits = 0
       /\ reqs[r].pc # "done" => reqs[r].emits = 0
  /\ Len(events) = Cardinality({r \in DOMAIN reqs : reqs[r].status = 200})
  /\ \A k \in 1..Len(events) :
       \E i \in 1..Len(messages) : MessageOf(messages[i]) = events[k].payload.msg

\* one request was answered 200 and another 500
C5_Witness ==
  \E r, q \in DOMAIN reqs :
    /\ reqs[r].status = 200
    /\ reqs[q].status = 500
    /\ Len(events) = 1

TimeOf(store, i) == store[i].msgDateTime.ms

\* the ascending order in which equal msgDateTime keeps the order of saving
StableOrder(store) ==
  CHOOSE p \in SortOrders(store) :
    \A i, j \in 1..Len(store) :
      (i < j /\ TimeOf(store, p[i]) = TimeOf(store, p[j])) => p[i] < p[j]

Items(l) == l.resBody.items

Pos(items, id) == CHOOSE k \in 1..Len(items) : items[k]._id = id

\* the request that saved the document with this _id
ReqOf(id) ==
  CHOOSE r \in DOMAIN reqs :
    /\ reqs[r].msgFromDb # None
    /\ ~IsError(reqs[r].msgFromDb)
    /\ reqs[r].msgFromDb._id = id

\* C7, original statement: of two messages with distinct timestamps, the one
\* whose write was acknowledged first is listed first
C7_AckOrderListed ==
  listed.served =>
    \A i, j \in 1..Len(listed.store) :
      (i < j /\ TimeOf(listed.store, i) # TimeOf(listed.store, j)) =>
        Pos(Items(listed), listed.store[i]._id) < Pos(Items(listed), listed.store[j]._id)

\* C7, as amended: of two messages with distinct timestamps, m1 is listed
\* before m2 when m1's write was acknowledged before the controller began to
\* handle m2's request
C7_HandledAfterAckListed ==
  listed.served =>
    \A i, j \in 1..Len(listed.store) :
      (/\ TimeOf(listed.store, i) # TimeOf(listed.store, j)
       /\ reqs[ReqOf(listed.store[i]._id)].ackedAt
            <= reqs[ReqOf(listed.store[j]._id)].stampedStep) =>
        Pos(Items(listed), listed.store[i]._id) < Pos(Items(listed), listed.store[j]._id)

\* two messages, the second handled after the first was acknowledged and at
\* a later time, were listed
C7_Witness ==
  /\ listed.served
  /\ Len(listed.store) >= 2
  /\ TimeOf(listed.store, 1) < TimeOf(listed.store, 2)
  /\ reqs[ReqOf(listed.store[1]._id)].ackedAt
       <= reqs[ReqOf(listed.store[2]._id)].stampedStep

\* C10: when the backend fails during a listing, getMessages returns an empty
\* array and GET /getMessages answers 200 with it, as it does when the store
\* is empty
C10_FailedListingIsEmpty ==
  (listed.status # 0 /\ ~listed.served) =>
    /\ listed.status = 200
    /\ listed.resBody = Arr(<<>>)
    /\ listed.resBody = getMessages(<<>>, TRUE, <<>>)

\* a listing failed while messages were stored
C10_Witness ==
  /\ listed.status = 200
  /\ ~listed.served
  /\ listed.store # <<>>

\* C11: when the getMessages service call fails, by rejecting or by yielding
\* an error instead of a sequence, GET /getMessages is answered with HTTP 500
\* and a JSON body that has an error field
C11_FailedServiceAnswered500 ==
  (/\ listed.service # None
   /\ \/ listed.service.kind = "rejected"
      \/ ~IsArray(listed.service.value)) =>
    /\ listed.status = 500
    /\ IsError(listed.resBody)

\* the fixed texts with which the user services report a backend failure
BackendFailureTexts ==
  {"Failed to save user", "Error fetching user", "Login failed",
   "Failed to delete user", "Failed to update user", "Failed to reset password"}

\* C12: a backend failure that a service reports as a tagged error is
\* answered 500; 401 is answered only to a well-formed request whose
\* credentials match no user; 404 is answered only to a well-formed request
\* whose username no user has
C12_StatusCodePolicy ==
  last.status # 0 =>
    /\ (last.called /\ IsTaggedError(last.result)
          /\ last.result.error \in BackendFailureTexts) => last.status = 500
    /\ last.status = 401 =>
         /\ last.called
         /\ \A d \in last.before : ~(/\ d.username = last.args.username.s
                                      /\ d.password = last.args.password.s)
    /\ last.status = 404 =>
         /\ last.called
         /\ \A d \in last.before : d.username # last.args.username.s

Settled == {c \in DOMAIN calls : calls[c].pc = "settled"}

Deletes(among) == {c \in among : calls[c].op = "deleteUserByUsername"}

\* the deletes that returned a safe projection
Won(among) == {c \in Deletes(among) : IsSafeUser(calls[c].result)}

\* the record of Target a call found stored
Found(c) == CHOOSE d \in calls[c].before : d.username = Target

\* what the claim says of the settled calls among: one delete returns the
\* projection of the record it deleted, the other deletes "User not found", an
\* update or reset the projection of the updated record when no delete
\* returned before it and "User not found" otherwise
SerializedOutcomes(among) ==
  /\ Deletes(among) # {} => Cardinality(Won(among)) = 1
  /\ \A c \in Won(among) : calls[c].result = SafeUser(Found(c))
  /\ \A c \in Deletes(among) \ Won(among) :
       calls[c].result = Err("User not found")
  /\ \A c \in among \ Deletes(among) :
       IF \E w \in Won(among) : calls[w].at < calls[c].at
         THEN calls[c].result = Err("User not found")
         ELSE /\ MatchUsername(calls[c].before, Target) # {}
              /\ calls[c].result =
                   SafeUser(Updated(Found(c), SchemaUpdates(calls[c].updates)))

\* C14, original statement: of any concurrent deleteUserByUsername, updateUser
\* and resetPassword calls on one stored username, exactly one delete returns
\* the safe projection, every other delete "User not found", and every update
\* or reset the post-update projection or "User not found"
C14_ConcurrentOutcomes == SerializedOutcomes(Settled)

Renames(c) ==
  calls[c].op = "updateUser" /\ calls[c].updates.username # Undefined

FailureText(c) ==
  CASE calls[c].op = "deleteUserByUsername" -> "Failed to delete user"
    [] calls[c].op = "updateUser" -> "Failed to update user"
    [] calls[c].op = "resetPassword" -> "Failed to reset password"

\* C14, amended: when no update changes the username, the calls the backend
\* answered have the outcomes of one serial order: exactly one answered delete
\* returns the safe projection of the record it deleted, every other answered
\* delete "User not found", every answered update or reset the post-update
\* projection before that delete and "User not found" after it; a call the
\* backend failed returns its failure text and changes nothing
C14_SerializedOutcomes ==
  (\A c \in DOMAIN calls : calls[c].pc # "idle" => ~Renames(c)) =>
    /\ SerializedOutcomes({c \in Settled : calls[c].ok})
    /\ \A c \in Settled : ~calls[c].ok =>
         calls[c].result = Err(FailureText(c))

\* an update, then the delete that wins, then a delete that finds nothing
C14_Witness ==
  /\ \A c \in DOMAIN calls : calls[c].pc = "settled" /\ calls[c].ok
  /\ \E u, w, d \in DOMAIN calls :
       /\ calls[u].op = "updateUser" /\ calls[u].at = 1
       /\ calls[u].updates.password # Undefined
       /\ IsSafeUser(calls[u].result)
       /\ calls[w].op = "deleteUserByUsername" /\ calls[w].at = 2
       /\ IsSafeUser(calls[w].result)
       /\ calls[d].op = "deleteUserByUsername" /\ calls[d].at = 3
       /\ calls[d].result = Err("User not found")
       /\ users = {}

\* C15: the second validation of addMessageRoute never fails: the message
\* built from a request that passed isRequestValid passes isMessageValid, no
\* response is "Invalid message content", and every 400 of the handler
\* carries "Invalid message body"
C15_SecondValidationNeverFails ==
  \A r \in DOMAIN reqs :
    /\ reqs[r].newMessage # None =>
         isRequestValid(reqs[r].body) /\ isMessageValid(reqs[r].newMessage)
    /\ reqs[r].resBody # Text("Invalid message content")
    /\ reqs[r].status = 400 => reqs[r].resBody = Text("Invalid message body")

\* a request with a null msgDateTime passed both validations
C15_Witness ==
  \E r \in DOMAIN reqs :
    /\ reqs[r].pc = "awaitSave"
    /\ reqs[r].body.messageToAdd.msgDateTime = Null
    /\ isMessageValid(reqs[r].newMessage)

====
